---- MODULE Spec2Model ----
(***************************************************************************)
(* Model of the templating engine of src/templater/templater.py: the       *)
(* TextReader cursor, Lexer.parse_variable_token, Lexer.lex and            *)
(* Templater.render, together with the call made by                        *)
(* src/templater/cli.py (TempalterCli._render_file).                       *)
(*                                                                         *)
(* Strings are sequences of one-character strings.  The Python index of    *)
(* the reader is 0-based; sequences here are 1-based, so text[idx] of the  *)
(* source is text[idx + 1] below.                                          *)
(***************************************************************************)
EXTENDS Integers, Sequences, FiniteSets, TLC

VARIABLES text, variables, defaults, pc, idx, buf, tokens, ptext, pvariable,
          token, out, ri, prevTokens, prevOut, call, eq, pstart, iters

(* text       TextReader.text, the template (templater.py:7)                *)
(* variables  Templater.variables (templater.py:127)                       *)
(* defaults   the default= keyword of cli.py:95, with given = FALSE when   *)
(*            the caller passes none                                       *)
(* pc         the position of control: start, lex, parse, ret, flush,      *)
(*            lexed, render, rendered, raised, TypeError                   *)
(* idx        TextReader.idx (templater.py:9)                              *)
(* buf        the local text of Lexer.lex (templater.py:90)                *)
(* tokens     the local tokens of Lexer.lex, then Templater.tokens         *)
(* ptext      the local text of parse_variable_token (templater.py:59)     *)
(* pvariable  the local variable of parse_variable_token (templater.py:60) *)
(* token      the token returned by parse_variable_token (templater.py:93) *)
(* out        the local s of Templater.render (templater.py:130)           *)
(* ri         the position of the loop of render in tokens, from 1         *)
(* prevTokens what the previous call of lex on the same text returned      *)
(* prevOut    what the previous call of render returned                    *)
(* call       the last call made on the TextReader by a caller other than  *)
(*            the lexer, and what it returned                              *)
(* eq         the operands and the result of a call of Token.__eq__        *)
(* pstart     TextReader.idx at the entry of parse_variable_token          *)
(*            (templater.py:59), the index of the first opening brace      *)
(* iters      the number of passes of the main loop of lex started so far  *)
(*            (templater.py:91)                                            *)

vars == <<text, variables, defaults, pc, idx, buf, tokens, ptext, pvariable,
          token, out, ri, prevTokens, prevOut, call, eq, pstart, iters>>

----------------------------------------------------------------------------
(* Bounds of the explored inputs. *)

MaxLen == 4
MaxPad == 2
MaxIdent == 2
MaxSeg == 2
MaxEq == 1

----------------------------------------------------------------------------
(* Characters. *)

Letters == {"a"}
Digits == {"1"}
Alphabet == {"a", ".", "_", " ", "{", "}", "1", ","}

\* Optional[str]: the value returned when there is no character.
None == "None"

\* str.isalpha() on one character.
IsAlpha(c) == c \in Letters

----------------------------------------------------------------------------
(* TextReader *)

Current(t, i) == IF t # <<>> THEN t[i + 1] ELSE None

Peek(t, i) == IF i + 1 >= Len(t) THEN None ELSE t[i + 2]

\* TextReader.next: the index after the call and the value returned.
\* Mutant of NextIdx: the index never advances.
NextIdxStuck(t, i) == i

\* Mutant of NextIdx: the index advances without a look at peek.
NextIdxUnchecked(t, i) == i + 1

NextIdx(t, i) == IF Peek(t, i) # None THEN i + 1 ELSE i

\* Mutant of NextVal: the character is read before the index advances.
NextValStale(t, i) == IF Peek(t, i) # None THEN Current(t, i) ELSE None

NextVal(t, i) == IF Peek(t, i) # None THEN Current(t, i + 1) ELSE None

\* Mutant of IsLast: the index is compared with the length.
IsLastLength(t, i) == i = Len(t)

IsLast(t, i) == i = Len(t) - 1

\* self.text[self.idx] raises IndexError when idx is not below the length.
IndexError == "IndexError"

CurrentRaises(t, i) == t # <<>> /\ i >= Len(t)

----------------------------------------------------------------------------
(* Token *)

TokenType_NORMAL == "NORMAL"
TokenType_VARIABLE == "VARIABLE"

\* Mutant of Token: the variable attribute is never kept.
TokenNoName(txt, type, var) == [text |-> txt, type |-> type, variable |-> <<>>]

\* Token.__init__: the variable attribute is kept only by VARIABLE tokens.
Token(txt, type, var) ==
    [text |-> txt, type |-> type,
     variable |-> IF type = TokenType_VARIABLE THEN var ELSE <<>>]

\* Value of the local `token` of lex before parse_variable_token returned.
NoToken == [text |-> <<>>, type |-> "NoToken", variable |-> <<>>]

----------------------------------------------------------------------------
(* String helpers of the Python runtime. *)

\* The result of `s += c` when c is None: Python raises TypeError.
Raised == <<"TypeError">>

\* s += c for a value c returned by the reader.
AddChar(s, c) == IF s = Raised \/ c = None THEN Raised ELSE Append(s, c)

\* str(n) for a non-negative integer n.
RECURSIVE StrInt(_)
StrInt(n) ==
    LET d == <<"0", "1", "2", "3", "4", "5", "6", "7", "8", "9">>[(n % 10) + 1]
    IN IF n < 10 THEN <<d>> ELSE Append(StrInt(n \div 10), d)

\* A value of the mapping: an int or a str.
IntValue(n) == [kind |-> "int", int |-> n, str |-> <<>>]
StrValue(s) == [kind |-> "str", int |-> 0, str |-> s]

\* str(value)
Str(v) == IF v.kind = "int" THEN StrInt(v.int) ELSE v.str

----------------------------------------------------------------------------
(* Inputs: template texts and variable mappings. *)

Strings(S, n) == UNION {[1..k -> S] : k \in 0..n}

Spaces(n) == [k \in 1..n |-> " "]

\* Every string over the alphabet, up to MaxLen characters.
ArbitraryInputs == Strings(Alphabet, MaxLen)

\* `{{` + spaces + identifier + spaces + `}}`; the identifier may be empty and
\* may hold digits and commas.
MarkerChars == {"a", ".", "_", "1", ","}

MarkerInputs ==
    {<<"{", "{">> \o Spaces(p) \o id \o Spaces(q) \o <<"}", "}">> :
        p \in 0..MaxPad, q \in 0..MaxPad, id \in Strings(MarkerChars, MaxIdent)}

\* Literal segments without `{` interleaved with well-formed markers.
SegmentChars == {"a", "}"}

Segments == Strings(SegmentChars, MaxSeg)

WellFormedMarkers ==
    {<<"{", "{", "a", "}", "}">>, <<"{", "{", " ", "_", " ", "}", "}">>}

InterleavedInputs ==
    {s1 \o m1 \o s2 : s1 \in Segments, s2 \in Segments, m1 \in WellFormedMarkers}
    \cup
    {s1 \o m1 \o s2 \o m2 \o s3 :
        s1 \in Segments, s2 \in Segments, s3 \in Segments,
        m1 \in WellFormedMarkers, m2 \in WellFormedMarkers}

\* The malformed patterns of TestTemplater.test_replacing, each followed by a
\* literal segment.
MalformedPatterns ==
    {<<"{", "{", " ", "a", " ", "}">>,
     <<"{", " ", "a", " ", "}">>,
     <<"{", "{", "a", " ", "}", " ", "}">>,
     <<"{", " ", "{", " ", "a", " ", "}", " ", "}">>}

MalformedInputs == {m \o s : m \in MalformedPatterns, s \in Segments}

\* A malformed pattern, a literal segment, a well-formed marker and a literal
\* segment: the failed candidate and the text around it come before a
\* variable.
CoalescedInputs ==
    {m \o s1 \o w \o s2 :
        m \in MalformedPatterns, s1 \in Segments, w \in WellFormedMarkers,
        s2 \in Segments}

\* Markers of two words separated by one space.
WordChars == {"a", "_"}

Words == Strings(WordChars, MaxIdent) \ {<<>>}

MultiWordInputs ==
    {<<"{", "{">> \o Spaces(p) \o w1 \o <<" ">> \o w2 \o Spaces(q)
        \o <<"}", "}">> :
        p \in 0..MaxPad, q \in 0..MaxPad, w1 \in Words, w2 \in Words}

\* The input of TestLexer.test_doesnt_parse_invalid_variables, with every
\* letter written a: the text before the marker, the marker, the text after.
InvalidVariablesHead ==
    <<"a", "a", "a", "a", " ", "a", "a", "a", "a", " ", "{", "a", "{",
      " ", "a", " ", "}", "}", " ", "{", " ", "a", " ", "}", " ", "{",
      " ", "{", "a", "}", " ", "}", " ", "{", " ", "{", " ", "a", " ",
      "}", " ", "}", " ">>

InvalidVariablesMarker == <<"{", "{", "a", "}", "}">>

InvalidVariablesTail == <<" ", "a", "a", "a", "a", " ", "a", "a", "a", "a">>

InvalidVariablesInput ==
    InvalidVariablesHead \o InvalidVariablesMarker \o InvalidVariablesTail

Inputs == ArbitraryInputs \cup MarkerInputs \cup InterleavedInputs
          \cup MalformedInputs \cup MultiWordInputs
          \cup {InvalidVariablesInput} \cup CoalescedInputs

\* Variable mappings: Dict[str, Any] with int and str values.  In the last
\* one the value of a is itself a marker and the empty string is a key.
EmptyMapping == [n \in {} |-> IntValue(0)]

Mappings ==
    {EmptyMapping,
     [n \in {<<"a">>} |-> IntValue(123)],
     [n \in {<<"a">>, <<"_">>, <<>>} |->
        IF n = <<"a">> THEN StrValue(<<"{", "{", "_", "}", "}">>)
        ELSE IF n = <<"_">> THEN IntValue(7)
        ELSE StrValue(<<".">>)]}

\* The `default` keyword of TempalterCli._render_file; NoDefault when the
\* caller passes no such keyword (the tests).
NoDefault == [given |-> FALSE, map |-> EmptyMapping]

Defaults ==
    {[given |-> TRUE,
      map |-> [n \in {<<"a">>, <<".">>} |-> StrValue(<<"1", ",">>)]]}

\* The values of prevTokens and prevOut: no previous call, or its result.
NoResult == [set |-> FALSE, val |-> <<>>]

Result(v) == [set |-> TRUE, val |-> v]

\* The value of call before any call on the reader.
NoCall == [op |-> "none", ret |-> None, flag |-> FALSE]

\* The value of eq when no tokens are compared.
NoEq == [a |-> NoToken, b |-> NoToken, done |-> FALSE, result |-> FALSE]

----------------------------------------------------------------------------
(* Lexer.parse_variable_token *)

\* Mutant of IsNameChar: digits are accepted into the name.
IsNameCharWithDigits(c) == IsAlpha(c) \/ c = "." \/ c = "_" \/ c \in Digits

\* Mutant of IsNameChar: the underscore is forgotten.
IsNameCharNoUnderscore(c) == IsAlpha(c) \/ c = "."

\* The characters accepted into the name of a variable.
IsNameChar(c) == IsAlpha(c) \/ c = "." \/ c = "_"

\* Mutant of IsSpace: no character is taken for a space.
IsSpaceNever(c) == FALSE

\* The plain space, kept in the text of the candidate and left out of its
\* name.
IsSpace(c) == c = " "

\* Mutant of WhileCond: the loop also ends at the end of the input.
WhileCondEndOfInput(t, i) == Peek(t, i) # "}" /\ Peek(t, i) # None

\* The condition of the scanning loop.
WhileCond(t, i) == Peek(t, i) # "}"

\* Mutant of EndOfInputToken: the unfinished candidate becomes a variable.
EndOfInputTokenVariable(txt, var) == Token(txt, TokenType_VARIABLE, var)

\* The token returned when the input ends inside a candidate.
EndOfInputToken(txt, var) == Token(txt, TokenType_NORMAL, <<>>)

\* Mutant of CloseMarker: a candidate with an empty name is not a variable.
CloseMarkerNamed(t, i, txt, var) ==
    LET t1 == AddChar(txt, NextVal(t, i))
        i1 == NextIdx(t, i)
        t2 == AddChar(t1, NextVal(t, i1))
        i2 == NextIdx(t, i1)
        i3 == NextIdx(t, i2)
    IN  IF t1 = Raised THEN [token |-> NoToken, idx |-> i1]
        ELSE IF Peek(t, i1) # "}"
             THEN [token |-> Token(t1, TokenType_NORMAL, <<>>), idx |-> i1]
        ELSE IF t2 = Raised THEN [token |-> NoToken, idx |-> i2]
        ELSE IF var = <<>>
             THEN [token |-> Token(t2, TokenType_NORMAL, <<>>), idx |-> i3]
        ELSE [token |-> Token(t2, TokenType_VARIABLE, var), idx |-> i3]

\* The closing sequence: the first `}` is consumed, then the second is looked
\* for.  Returns the token (NoToken when a += received None) and the index.
CloseMarker(t, i, txt, var) ==
    LET t1 == AddChar(txt, NextVal(t, i))
        i1 == NextIdx(t, i)
        t2 == AddChar(t1, NextVal(t, i1))
        i2 == NextIdx(t, i1)
        i3 == NextIdx(t, i2)
    IN  IF t1 = Raised THEN [token |-> NoToken, idx |-> i1]
        ELSE IF Peek(t, i1) # "}"
             THEN [token |-> Token(t1, TokenType_NORMAL, <<>>), idx |-> i1]
        ELSE IF t2 = Raised THEN [token |-> NoToken, idx |-> i2]
        ELSE [token |-> Token(t2, TokenType_VARIABLE, var), idx |-> i3]

----------------------------------------------------------------------------
(* Lexer.lex *)

\* Mutant of LoopTail: the loop is left without the last character.
LoopTailNoAppend(t, i, b) == [buf |-> b, break |-> IsLast(t, i)]

\* The check that ends an iteration of the main loop: at the last index the
\* current character is appended and the loop is left.
LoopTail(t, i, b) ==
    IF IsLast(t, i)
    THEN [buf |-> IF Current(t, i) # None THEN AddChar(b, Current(t, i)) ELSE b,
          break |-> TRUE]
    ELSE [buf |-> b, break |-> FALSE]

\* Mutant of FailedCandidate: the span of a failed candidate becomes a token
\* of its own, after the pending literal text.
FailedCandidateOwnToken(toks, b, tok) ==
    [tokens |-> Append(IF b # <<>>
                       THEN Append(toks, Token(b, TokenType_NORMAL, <<>>))
                       ELSE toks, tok),
     buf |-> <<>>]

\* lex on a NORMAL token of parse_variable_token: its text joins the pending
\* literal text and no token is emitted.
FailedCandidate(toks, b, tok) == [tokens |-> toks, buf |-> b \o tok.text]

\* Mutant of LexFlush: the buffer becomes a token even when it is empty.
LexFlushAlways(toks, b) == Append(toks, Token(b, TokenType_NORMAL, <<>>))

\* Mutant of IsMarkerStart: the peeked character is not looked at.
IsMarkerStartNoPeek(t, i) == Current(t, i) = "{"

\* The test of the main loop for the start of a variable marker.
IsMarkerStart(t, i) == Current(t, i) = "{" /\ Peek(t, i) = "{"

\* The pending literal text becomes a token when it is not empty.
LexFlush(toks, b) ==
    IF b # <<>> THEN Append(toks, Token(b, TokenType_NORMAL, <<>>)) ELSE toks

----------------------------------------------------------------------------
(* Templater.render *)

\* The backtick character (a string literal cannot hold it).
Backtick == "backtick"

\* Mutant of MissingVariable: the closing backtick is forgotten.
MissingVariableUnclosed(name) ==
    <<Backtick, "M", "I", "S", "S", "I", "N", "G", " ",
      "V", "A", "R", "I", "A", "B", "L", "E", " ">> \o name

\* The f-string of the missing variable.
MissingVariable(name) ==
    <<Backtick, "M", "I", "S", "S", "I", "N", "G", " ",
      "V", "A", "R", "I", "A", "B", "L", "E", " ">> \o name \o <<Backtick>>

\* Mutant of EmptyString: s is not reset and keeps what it held.
EmptyStringKept(s) == s

\* s = "" at the start of render, whatever s held before.
EmptyString(s) == <<>>

\* Mutant of RenderFragment: a value that is the marker of the variable _ is
\* expanded once more.
RenderFragmentExpanded(tok, vs) ==
    LET once == IF tok.type = TokenType_NORMAL THEN tok.text
                ELSE IF tok.type = TokenType_VARIABLE
                     THEN IF tok.variable \in DOMAIN vs
                          THEN Str(vs[tok.variable])
                          ELSE MissingVariable(tok.variable)
                ELSE <<>>
    IN  IF /\ tok.type = TokenType_VARIABLE
           /\ once = <<"{", "{", "_", "}", "}">>
           /\ <<"_">> \in DOMAIN vs
        THEN Str(vs[<<"_">>])
        ELSE once

\* What render appends for one token.
RenderFragment(tok, vs) ==
    IF tok.type = TokenType_NORMAL THEN tok.text
    ELSE IF tok.type = TokenType_VARIABLE
         THEN IF tok.variable \in DOMAIN vs
              THEN Str(vs[tok.variable])
              ELSE MissingVariable(tok.variable)
    ELSE <<>>

----------------------------------------------------------------------------
(* The state machine. *)

Init ==
    /\ text \in Inputs
    /\ variables \in Mappings
    /\ defaults \in {NoDefault} \cup Defaults
    /\ pc = "start"
    /\ idx = 0
    /\ buf = <<>>
    /\ tokens = <<>>
    /\ ptext = <<>>
    /\ pvariable = <<>>
    /\ token = NoToken
    /\ out = <<>>
    /\ ri = 0
    /\ prevTokens = NoResult
    /\ prevOut = NoResult
    /\ call = NoCall
    /\ eq = NoEq
    /\ pstart = 0
    /\ iters = 0

\* Templater(text, variables): the constructor has no `default` parameter, so
\* the call of _render_file, which passes one, raises TypeError.  Otherwise
\* the reader is created at index 0 and lex starts with no tokens and an
\* empty buffer.
TemplaterInit ==
    /\ pc = "start"
    /\ pc' = IF defaults.given THEN "TypeError" ELSE "lex"
    /\ idx' = 0
    /\ buf' = <<>>
    /\ tokens' = <<>>
    /\ iters' = 0
    /\ UNCHANGED <<text, variables, defaults, ptext, pvariable, token, out, ri>>
    /\ UNCHANGED <<prevTokens, prevOut, call, eq, pstart>>

\* lex, current and peek are both `{`: parse_variable_token is entered and
\* records the two opening braces.
LexVariable ==
    /\ pc = "lex"
    /\ IsMarkerStart(text, idx)
    /\ LET t0 == <<Current(text, idx)>>
           t1 == AddChar(t0, NextVal(text, idx))
       IN  IF Current(text, idx) # "{" \/ Peek(text, idx) # "{"
           THEN /\ token' = Token(t0, TokenType_NORMAL, <<>>)
                /\ pc' = "ret"
                /\ UNCHANGED <<idx, ptext>>
           ELSE /\ ptext' = t1
                /\ idx' = NextIdx(text, idx)
                /\ pc' = IF t1 = Raised THEN "raised" ELSE "parse"
                /\ UNCHANGED token
    /\ pvariable' = <<>>
    /\ pstart' = idx
    /\ iters' = iters + 1
    /\ UNCHANGED <<text, variables, defaults, buf, tokens, out, ri>>
    /\ UNCHANGED <<prevTokens, prevOut, call, eq>>

\* One pass of the scanning loop of parse_variable_token.
ParseLoop ==
    /\ pc = "parse"
    /\ WhileCond(text, idx)
    /\ LET n == NextVal(text, idx)
       IN  /\ idx' = NextIdx(text, idx)
           /\ IF n = None
              THEN /\ token' = EndOfInputToken(ptext, pvariable)
                   /\ pc' = "ret"
                   /\ UNCHANGED <<ptext, pvariable>>
              ELSE IF IsNameChar(n)
              THEN /\ ptext' = Append(ptext, n)
                   /\ pvariable' = Append(pvariable, n)
                   /\ UNCHANGED <<token, pc>>
              ELSE IF IsSpace(n)
              THEN /\ ptext' = Append(ptext, n)
                   /\ UNCHANGED <<pvariable, token, pc>>
              ELSE /\ token' = Token(ptext, TokenType_NORMAL, <<>>)
                   /\ pc' = "ret"
                   /\ UNCHANGED <<ptext, pvariable>>
    /\ UNCHANGED <<text, variables, defaults, buf, tokens, out, ri>>
    /\ UNCHANGED <<prevTokens, prevOut, call, eq, pstart, iters>>

\* The scanning loop has ended on a peeked `}`: the closing sequence.
ParseClose ==
    /\ pc = "parse"
    /\ ~WhileCond(text, idx)
    /\ LET r == CloseMarker(text, idx, ptext, pvariable)
       IN  /\ token' = r.token
           /\ idx' = r.idx
           /\ pc' = IF r.token = NoToken THEN "raised" ELSE "ret"
    /\ UNCHANGED <<text, variables, defaults, buf, tokens, ptext, pvariable,
                   out, ri>>
    /\ UNCHANGED <<prevTokens, prevOut, call, eq, pstart, iters>>

\* lex after parse_variable_token returned: a NORMAL token joins the buffer
\* and the reader advances; a VARIABLE token flushes the buffer and is
\* appended.  Then the early exit and the end check of the iteration.
LexToken ==
    /\ pc = "ret"
    /\ LET normal == token.type = TokenType_NORMAL
           failed == FailedCandidate(tokens, buf, token)
           b1 == IF normal THEN failed.buf ELSE <<>>
           i1 == IF normal THEN NextIdx(text, idx) ELSE idx
           k1 == IF normal THEN failed.tokens
                 ELSE Append(LexFlush(tokens, buf), token)
           tail == LoopTail(text, i1, b1)
       IN  /\ idx' = i1
           /\ tokens' = k1
           /\ IF IsLast(text, i1)
              THEN buf' = b1 /\ pc' = "flush"
              ELSE /\ buf' = tail.buf
                   /\ pc' = IF tail.buf = Raised THEN "raised"
                            ELSE IF tail.break THEN "flush" ELSE "lex"
    /\ UNCHANGED <<text, variables, defaults, ptext, pvariable, token, out, ri>>
    /\ UNCHANGED <<prevTokens, prevOut, call, eq, pstart, iters>>

\* lex, there is no current character: the loop is left.
LexEnd ==
    /\ pc = "lex"
    /\ ~IsMarkerStart(text, idx)
    /\ Current(text, idx) = None
    /\ pc' = "flush"
    /\ iters' = iters + 1
    /\ UNCHANGED <<text, variables, defaults, idx, buf, tokens, ptext,
                   pvariable, token, out, ri>>
    /\ UNCHANGED <<prevTokens, prevOut, call, eq, pstart>>

\* lex, any other character: it joins the buffer and the reader advances.
LexLiteral ==
    /\ pc = "lex"
    /\ ~IsMarkerStart(text, idx)
    /\ Current(text, idx) # None
    /\ LET b1 == AddChar(buf, Current(text, idx))
           i1 == NextIdx(text, idx)
           tail == LoopTail(text, i1, b1)
       IN  /\ idx' = i1
           /\ buf' = tail.buf
           /\ pc' = IF tail.buf = Raised THEN "raised"
                    ELSE IF tail.break THEN "flush" ELSE "lex"
    /\ iters' = iters + 1
    /\ UNCHANGED <<text, variables, defaults, tokens, ptext, pvariable, token,
                   out, ri>>
    /\ UNCHANGED <<prevTokens, prevOut, call, eq, pstart>>

\* lex after the loop: the remaining buffer is flushed and the tokens are
\* returned to Templater.__init__.
LexReturn ==
    /\ pc = "flush"
    /\ tokens' = LexFlush(tokens, buf)
    /\ pc' = "lexed"
    /\ UNCHANGED <<text, variables, defaults, idx, buf, ptext, pvariable,
                   token, out, ri>>
    /\ UNCHANGED <<prevTokens, prevOut, call, eq, pstart, iters>>

\* render is called, for the first time or again: s = "".  The string the
\* previous call returned is remembered.
RenderStart ==
    /\ pc \in {"lexed", "rendered"}
    /\ prevOut' = IF pc = "rendered" THEN Result(out) ELSE prevOut
    /\ out' = EmptyString(out)
    /\ ri' = 1
    /\ pc' = "render"
    /\ UNCHANGED <<text, variables, defaults, idx, buf, tokens, ptext,
                   pvariable, token, prevTokens, call, eq, pstart, iters>>

\* One pass of the loop of render.
RenderToken ==
    /\ pc = "render"
    /\ ri <= Len(tokens)
    /\ out' = out \o RenderFragment(tokens[ri], variables)
    /\ ri' = ri + 1
    /\ UNCHANGED <<text, variables, defaults, pc, idx, buf, tokens, ptext,
                   pvariable, token>>
    /\ UNCHANGED <<prevTokens, prevOut, call, eq, pstart, iters>>

\* render returns s.
RenderReturn ==
    /\ pc = "render"
    /\ ri > Len(tokens)
    /\ pc' = "rendered"
    /\ UNCHANGED <<text, variables, defaults, idx, buf, tokens, ptext,
                   pvariable, token, out, ri>>
    /\ UNCHANGED <<prevTokens, prevOut, call, eq, pstart, iters>>

Next ==
    \/ TemplaterInit
    \/ LexVariable
    \/ ParseLoop
    \/ ParseClose
    \/ LexToken
    \/ LexEnd
    \/ LexLiteral
    \/ LexReturn
    \/ RenderStart
    \/ RenderToken
    \/ RenderReturn

Spec == Init /\ [][Next]_vars

----------------------------------------------------------------------------
(* Lexer(text).lex() called twice on the same text, each time on a new      *)
(* Lexer.                                                                  *)

\* Mutant of NewReaderIdx: the second Lexer goes on with the reader of the
\* first.
SharedReaderIdx(old) == old

\* Lexer.__init__ creates a TextReader of its own, whose idx is 0 whatever
\* the idx of an earlier reader.
NewReaderIdx(old) == 0

InitLexer ==
    /\ text \in Inputs
    /\ variables = EmptyMapping
    /\ defaults = NoDefault
    /\ pc = "lex"
    /\ idx = 0
    /\ buf = <<>>
    /\ tokens = <<>>
    /\ ptext = <<>>
    /\ pvariable = <<>>
    /\ token = NoToken
    /\ out = <<>>
    /\ ri = 0
    /\ prevTokens = NoResult
    /\ prevOut = NoResult
    /\ call = NoCall
    /\ eq = NoEq
    /\ pstart = 0
    /\ iters = 0

\* lex has returned; a second Lexer is created on the same text and its lex
\* starts.  What the first call returned is remembered.
LexAgain ==
    /\ pc = "lexed"
    /\ ~prevTokens.set
    /\ prevTokens' = Result(tokens)
    /\ idx' = NewReaderIdx(idx)
    /\ buf' = <<>>
    /\ tokens' = <<>>
    /\ ptext' = <<>>
    /\ pvariable' = <<>>
    /\ token' = NoToken
    /\ pc' = "lex"
    /\ iters' = 0
    /\ UNCHANGED <<text, variables, defaults, out, ri, prevOut, call, eq,
                   pstart>>

NextLexTwice ==
    \/ LexVariable
    \/ ParseLoop
    \/ ParseClose
    \/ LexToken
    \/ LexEnd
    \/ LexLiteral
    \/ LexReturn
    \/ LexAgain

SpecLexTwice == InitLexer /\ [][NextLexTwice]_vars

----------------------------------------------------------------------------
(* One call of Lexer(text).lex(), run to its end: the program is            *)
(* sequential, so the step that is enabled is eventually taken.            *)

NextLex ==
    \/ LexVariable
    \/ ParseLoop
    \/ ParseClose
    \/ LexToken
    \/ LexEnd
    \/ LexLiteral
    \/ LexReturn

SpecLex == InitLexer /\ [][NextLex]_vars /\ WF_vars(NextLex)

----------------------------------------------------------------------------
(* A TextReader on its own: any sequence of calls of current, peek, next    *)
(* and is_last.                                                            *)

InitCursor ==
    /\ text \in ArbitraryInputs
    /\ variables = EmptyMapping
    /\ defaults = NoDefault
    /\ pc = "reader"
    /\ idx = 0
    /\ buf = <<>>
    /\ tokens = <<>>
    /\ ptext = <<>>
    /\ pvariable = <<>>
    /\ token = NoToken
    /\ out = <<>>
    /\ ri = 0
    /\ prevTokens = NoResult
    /\ prevOut = NoResult
    /\ call = NoCall
    /\ eq = NoEq
    /\ pstart = 0
    /\ iters = 0

CursorFrame ==
    UNCHANGED <<text, variables, defaults, pc, buf, tokens, ptext, pvariable,
                token, out, ri, prevTokens, prevOut, eq, pstart, iters>>

\* reader.current()
CallCurrent ==
    /\ pc = "reader"
    /\ call' = [op |-> "current",
                ret |-> IF CurrentRaises(text, idx) THEN IndexError
                        ELSE Current(text, idx),
                flag |-> FALSE]
    /\ idx' = idx
    /\ CursorFrame

\* reader.peek()
CallPeek ==
    /\ pc = "reader"
    /\ call' = [op |-> "peek", ret |-> Peek(text, idx), flag |-> FALSE]
    /\ idx' = idx
    /\ CursorFrame

\* reader.next()
CallNext ==
    /\ pc = "reader"
    /\ call' = [op |-> "next", ret |-> NextVal(text, idx), flag |-> FALSE]
    /\ idx' = NextIdx(text, idx)
    /\ CursorFrame

\* reader.is_last()
CallIsLast ==
    /\ pc = "reader"
    /\ call' = [op |-> "is_last", ret |-> None, flag |-> IsLast(text, idx)]
    /\ idx' = idx
    /\ CursorFrame

NextCursor ==
    \/ CallCurrent
    \/ CallPeek
    \/ CallNext
    \/ CallIsLast

SpecCursor == InitCursor /\ [][NextCursor]_vars

----------------------------------------------------------------------------
(* Token.__eq__, applied to two values. *)

\* isinstance(other, Token)
IsToken(x) == x.type \in {TokenType_NORMAL, TokenType_VARIABLE}

\* A value that is not a Token.
NotAToken == [text |-> <<>>, type |-> "str", variable |-> <<>>]

\* Token.__eq__(self, other)
Token__eq__(self, other) ==
    IF IsToken(other)
    THEN self.text = other.text /\ self.type = other.type
    ELSE FALSE

\* The tokens compared: every text and name of up to MaxEq characters.
EqTokens ==
    {Token(t, ty, v) :
        t \in Strings(SegmentChars, MaxEq),
        ty \in {TokenType_NORMAL, TokenType_VARIABLE},
        v \in Strings({"a", "."}, MaxEq)}

InitEq ==
    /\ eq \in {[a |-> x, b |-> y, done |-> FALSE, result |-> FALSE] :
                 x \in EqTokens, y \in EqTokens \cup {NotAToken}}
    /\ text = <<>>
    /\ variables = EmptyMapping
    /\ defaults = NoDefault
    /\ pc = "eq"
    /\ idx = 0
    /\ buf = <<>>
    /\ tokens = <<>>
    /\ ptext = <<>>
    /\ pvariable = <<>>
    /\ token = NoToken
    /\ out = <<>>
    /\ ri = 0
    /\ prevTokens = NoResult
    /\ prevOut = NoResult
    /\ call = NoCall
    /\ pstart = 0
    /\ iters = 0

\* a == b is evaluated.
TokenEq ==
    /\ pc = "eq"
    /\ ~eq.done
    /\ eq' = [eq EXCEPT !.done = TRUE, !.result = Token__eq__(eq.a, eq.b)]
    /\ UNCHANGED <<text, variables, defaults, pc, idx, buf, tokens, ptext,
                   pvariable, token, out, ri, prevTokens, prevOut, call,
                   pstart, iters>>

NextEq == TokenEq

SpecEq == InitEq /\ [][NextEq]_vars

----------------------------------------------------------------------------
(* Vocabulary of the properties, stated independently of the lexer. *)

\* The characters a variable identifier is made of.
IdentChars == Letters \cup {".", "_"}

NonSpaces(body) == SelectSeq(body, LAMBDA c : c # " ")

\* body is spaces, then a non-empty run over chars, then spaces.
IsPadded(body, chars) ==
    \E i \in 1..Len(body) : \E j \in i..Len(body) :
        \A k \in 1..Len(body) :
            IF k < i \/ k > j THEN body[k] = " " ELSE body[k] \in chars

\* The index of the last brace of the marker `{{` + body + `}}` that starts at
\* index i of t, where wellFormed(body) holds; 0 when there is none.
MarkerEnd(t, i, wellFormed(_)) ==
    LET ends == {e \in (i + 3)..Len(t) :
                    /\ t[i] = "{" /\ t[i + 1] = "{"
                    /\ t[e - 1] = "}" /\ t[e] = "}"
                    /\ wellFormed(SubSeq(t, i + 2, e - 2))}
    IN  IF ends = {} THEN 0 ELSE CHOOSE e \in ends : \A f \in ends : e <= f

\* `{{`, then only letters, dots, underscores and spaces, then `}}`.
IsLooseBody(body) == \A k \in 1..Len(body) : body[k] \in IdentChars \cup {" "}

\* spaces + non-empty identifier + spaces.
IsIdentBody(body) == IsPadded(body, IdentChars)

\* The same with digits allowed in the identifier.
IsDigitBody(body) == IsPadded(body, IdentChars \cup Digits)

\* The whole of t is one marker.
IsSingleMarker(t, wellFormed(_)) ==
    Len(t) >= 4 /\ MarkerEnd(t, 1, wellFormed) = Len(t)

MarkerName(t) == NonSpaces(SubSeq(t, 3, Len(t) - 2))

RECURSIVE ConcatTexts(_)
ConcatTexts(toks) ==
    IF toks = <<>> THEN <<>> ELSE Head(toks).text \o ConcatTexts(Tail(toks))

\* The sentinel of a missing variable, as specified.
Sentinel(name) ==
    <<Backtick>>
    \o <<"M", "I", "S", "S", "I", "N", "G", " ">>
    \o <<"V", "A", "R", "I", "A", "B", "L", "E", " ">>
    \o name \o <<Backtick>>

\* The value looked up for a name: primary mapping, then fallback, else the
\* sentinel.
Lookup(name, primary, fallback) ==
    IF name \in DOMAIN primary THEN Str(primary[name])
    ELSE IF name \in DOMAIN fallback THEN Str(fallback[name])
    ELSE Sentinel(name)

\* The template with every well-formed marker replaced and every other
\* character copied.
RECURSIVE Substituted(_, _, _)
Substituted(t, i, vs) ==
    IF i > Len(t) THEN <<>>
    ELSE LET e == MarkerEnd(t, i, IsLooseBody)
         IN  IF e = 0 THEN <<t[i]>> \o Substituted(t, i + 1, vs)
             ELSE Lookup(NonSpaces(SubSeq(t, i + 2, e - 2)), vs, EmptyMapping)
                  \o Substituted(t, e + 1, vs)

\* The rendering of a token sequence with a fallback mapping.
RECURSIVE RenderedWithFallback(_, _, _)
RenderedWithFallback(toks, primary, fallback) ==
    IF toks = <<>> THEN <<>>
    ELSE (IF Head(toks).type = TokenType_VARIABLE
          THEN Lookup(Head(toks).variable, primary, fallback)
          ELSE Head(toks).text)
         \o RenderedWithFallback(Tail(toks), primary, fallback)

\* The tokens of an input made of literal segments and well-formed markers:
\* one Literal per non-empty segment, one VariableRef per marker.
RECURSIVE Interleaved(_, _, _)
Interleaved(t, i, seg) ==
    LET literal == IF seg = <<>> THEN <<>>
                   ELSE <<[text |-> seg, type |-> "NORMAL", variable |-> <<>>]>>
        e == MarkerEnd(t, i, IsIdentBody)
    IN  IF i > Len(t) THEN literal
        ELSE IF e = 0 THEN Interleaved(t, i + 1, Append(seg, t[i]))
        ELSE literal
             \o <<[text |-> SubSeq(t, i, e), type |-> "VARIABLE",
                   variable |-> NonSpaces(SubSeq(t, i + 2, e - 2))]>>
             \o Interleaved(t, e + 1, <<>>)

\* t is made of segments without `{` and of well-formed markers, with at
\* least one marker.
IsInterleaved(t) ==
    LET toks == Interleaved(t, 1, <<>>)
    IN  /\ \E k \in 1..Len(toks) : toks[k].type = "VARIABLE"
        /\ \A k \in 1..Len(toks) :
              toks[k].type = "NORMAL" =>
                  \A n \in 1..Len(toks[k].text) : toks[k].text[n] # "{"

HasMarkerStart(t) == \E i \in 1..(Len(t) - 1) : t[i] = "{" /\ t[i + 1] = "{"

----------------------------------------------------------------------------
(* Properties. *)

\* C1: losslessness -- when lex has returned, the concatenation of the text
\* of its tokens, in order, is the input string.
C1_Lossless == pc = "lexed" => ConcatTexts(tokens) = text

\* C2: end-to-end rendering -- the result of render is the template with
\* every well-formed marker replaced by the string of its value, or by the
\* sentinel when the name is not in the mapping, and with every other
\* character copied unchanged and in order.
C2_RenderEndToEnd == pc = "rendered" => out = Substituted(text, 1, variables)

\* C3: fallback lookup -- a rendering that is given a fallback mapping
\* raises no error and yields, for each VariableRef, the value of the primary
\* mapping, else the value of the fallback mapping, else the sentinel.
C3_FallbackLookup ==
    defaults.given =>
        /\ pc # "TypeError"
        /\ pc = "rendered" =>
              out = RenderedWithFallback(tokens, variables, defaults.map)

\* C4: a missing variable never fails render -- the step of render on a
\* VariableRef whose name is in no mapping appends exactly the sentinel
\* (backtick, MISSING VARIABLE, space, name, backtick) and raises nothing.
C4_MissingSentinel ==
    [][(/\ pc = "render"
        /\ ri <= Len(tokens)
        /\ tokens[ri].type = TokenType_VARIABLE
        /\ tokens[ri].variable \notin DOMAIN variables
        /\ tokens[ri].variable \notin DOMAIN defaults.map)
       => /\ out' = out \o Sentinel(tokens[ri].variable)
          /\ pc' = "render"
          /\ ri' = ri + 1]_vars

\* C4 witness: render has just appended the sentinel for a first token that
\* is a VariableRef missing from the mapping.
C4_Witness ==
    /\ pc = "render"
    /\ ri = 2
    /\ tokens[1].type = TokenType_VARIABLE
    /\ tokens[1].variable \notin DOMAIN variables
    /\ tokens[1].variable # <<>>
    /\ out = Sentinel(tokens[1].variable)

\* C5: lex is total -- no step of lex or parse_variable_token concatenates
\* the None of the reader (which raises), and what lex returns is a sequence
\* of NORMAL and VARIABLE tokens over the characters of the input.
C5_LexTotal ==
    /\ pc # "raised"
    /\ buf # Raised
    /\ pc \in {"parse", "ret"} => ptext # Raised
    /\ pc = "lexed" =>
          \A k \in 1..Len(tokens) :
              /\ tokens[k].type \in {TokenType_NORMAL, TokenType_VARIABLE}
              /\ \A n \in 1..Len(tokens[k].text) :
                    tokens[k].text[n] \in Alphabet

\* C5 witness: lex has returned on an input whose last candidate ran into
\* the end of the input after its first closing brace.
C5_Witness ==
    /\ pc = "lexed"
    /\ token.type = TokenType_NORMAL
    /\ Len(text) >= 4
    /\ text[Len(text)] = "}"
    /\ text[Len(text) - 1] # "}"
    /\ token.text = text

\* C6: empty input -- lex of the empty string returns no token.
C6_EmptyInput == (pc = "lexed" /\ text = <<>>) => tokens = <<>>

\* C6 witness: lex has returned on the empty string.
C6_Witness == pc = "lexed" /\ text = <<>>

\* C7: plain literal -- for a non-empty input without a `{{` pair lex returns
\* exactly one NORMAL token whose text is the whole input.
C7_PlainLiteral ==
    (pc = "lexed" /\ text # <<>> /\ ~HasMarkerStart(text)) =>
        tokens = <<[text |-> text, type |-> "NORMAL", variable |-> <<>>]>>

\* C8: single well-formed marker -- for an input `{{` + spaces + identifier +
\* spaces + `}}` with a non-empty identifier of letters, dots and underscores
\* lex returns exactly one VARIABLE token whose text is the whole input and
\* whose name is the identifier.
C8_SingleMarker ==
    (pc = "lexed" /\ IsSingleMarker(text, IsIdentBody)) =>
        tokens = <<[text |-> text, type |-> "VARIABLE",
                    variable |-> MarkerName(text)]>>

\* C8 witness: lex has returned on a marker with spaces on both sides of an
\* identifier that holds a dot or an underscore.
C8_Witness ==
    /\ pc = "lexed"
    /\ IsSingleMarker(text, IsIdentBody)
    /\ text[3] = " "
    /\ text[Len(text) - 2] = " "
    /\ \E k \in 1..Len(text) : text[k] \in {".", "_"}
    /\ Len(tokens) = 1
    /\ tokens[1].variable = MarkerName(text)

\* C9: digits in identifiers -- a marker whose identifier holds a digit next
\* to a letter lexes to one VARIABLE token whose text is the whole marker and
\* whose name includes the digit.
C9_DigitsInIdentifier ==
    (/\ pc = "lexed"
     /\ IsSingleMarker(text, IsDigitBody)
     /\ \E k \in 1..(Len(text) - 1) :
           \/ text[k] \in Letters /\ text[k + 1] \in Digits
           \/ text[k] \in Digits /\ text[k + 1] \in Letters) =>
        tokens = <<[text |-> text, type |-> "VARIABLE",
                    variable |-> MarkerName(text)]>>

\* C10: interleaved text and markers -- for an input made of literal segments
\* without `{` and of well-formed markers lex returns, in source order, one
\* NORMAL token per non-empty segment and one VARIABLE token per marker.
C10_Interleaved ==
    (pc = "lexed" /\ IsInterleaved(text)) => tokens = Interleaved(text, 1, <<>>)

\* A literal token, as the properties state it.
Literal(txt) == [text |-> txt, type |-> "NORMAL", variable |-> <<>>]

\* A variable token, as the properties state it.
VariableRef(txt, name) == [text |-> txt, type |-> "VARIABLE", variable |-> name]

\* s ends with the sequence e.
EndsWith(s, e) ==
    Len(e) <= Len(s) /\ SubSeq(s, Len(s) - Len(e) + 1, Len(s)) = e

\* `{{` + body + `}}` where body holds no brace and holds a character that is
\* not a letter, a dot, an underscore or a space.
IsDisallowedMarker(t) ==
    /\ Len(t) >= 5
    /\ t[1] = "{" /\ t[2] = "{" /\ t[Len(t) - 1] = "}" /\ t[Len(t)] = "}"
    /\ \A k \in 3..(Len(t) - 2) : t[k] \notin {"{", "}"}
    /\ \E k \in 3..(Len(t) - 2) : t[k] \notin IdentChars \cup {" "}

\* `{{` + body + `}}` where body holds only identifier characters and spaces
\* and a space stands between two identifier characters.
IsMultiWordMarker(t) ==
    /\ IsSingleMarker(t, IsLooseBody)
    /\ \E i \in 3..(Len(t) - 2) : \E j \in i..(Len(t) - 2) :
          \E k \in j..(Len(t) - 2) :
              t[i] \in IdentChars /\ t[j] = " " /\ t[k] \in IdentChars

\* `{{` followed only by letters, dots, underscores and spaces.
IsUnfinishedSpan(s) ==
    /\ Len(s) >= 2
    /\ s[1] = "{" /\ s[2] = "{"
    /\ \A k \in 3..Len(s) : s[k] \in IdentChars \cup {" "}

\* t is text without `{` followed by an unfinished candidate.
IsUnfinished(t) ==
    \E k \in 1..Len(t) :
        /\ \A j \in 1..(k - 1) : t[j] # "{"
        /\ IsUnfinishedSpan(SubSeq(t, k, Len(t)))

\* C11: a disallowed character inside a marker -- an input that is one
\* marker holding a character other than a letter, a dot, an underscore, a
\* space or a brace lexes to a single NORMAL token equal to the whole input.
C11_DisallowedCharacter ==
    (pc = "lexed" /\ IsDisallowedMarker(text)) => tokens = <<Literal(text)>>

\* C12: a marker of two or more words separated by a space is not a
\* variable: lex returns one NORMAL token equal to the whole input.
C12_MultiWordMarker ==
    (pc = "lexed" /\ IsMultiWordMarker(text)) => tokens = <<Literal(text)>>

C14_UnfinishedMarker ==
    /\ (pc = "lexed" /\ IsUnfinished(text)) => tokens = <<Literal(text)>>
    /\ (/\ pc = "lexed"
        /\ token.type = TokenType_NORMAL
        /\ IsUnfinishedSpan(token.text)
        /\ EndsWith(text, token.text)) =>
          /\ tokens # <<>>
          /\ tokens[Len(tokens)].type = "NORMAL"
          /\ EndsWith(tokens[Len(tokens)].text, token.text)

\* C14 witness: lex has returned on the input of test_parses_unfinished_token.
C14_Witness ==
    /\ pc = "lexed"
    /\ text = <<"{", "{", " ", " ">>
    /\ tokens = <<Literal(text)>>

\* C15: token equality -- two tokens compare equal if and only if they have
\* the same type, the same text and, when they are VARIABLE tokens, the same
\* name.
C15_TokenEquality ==
    eq.done =>
        (eq.result <=>
            /\ eq.b.type \in {"NORMAL", "VARIABLE"}
            /\ eq.a.type = eq.b.type
            /\ eq.a.text = eq.b.text
            /\ (eq.a.type = "VARIABLE" => eq.a.variable = eq.b.variable))

\* C16: idempotent tokenization -- lexing the same input twice, each time
\* with a new Lexer, yields two token sequences of the same length that are
\* equal element by element in type, text and name.
C16_Idempotent ==
    (pc = "lexed" /\ prevTokens.set) =>
        /\ Len(tokens) = Len(prevTokens.val)
        /\ \A k \in 1..Len(tokens) :
              /\ tokens[k].type = prevTokens.val[k].type
              /\ tokens[k].text = prevTokens.val[k].text
              /\ tokens[k].variable = prevTokens.val[k].variable

\* C16 witness: the second lex has returned a literal and a variable token.
C16_Witness ==
    /\ pc = "lexed"
    /\ prevTokens.set
    /\ Len(tokens) >= 2
    /\ tokens[1].type = "NORMAL"
    /\ tokens[2].type = "VARIABLE"
    /\ tokens[2].variable # <<>>

\* C17: render is pure and restartable -- no step of render changes the
\* token sequence or the variable mapping, and every call of render after
\* the first returns the string the call before it returned.
C17_RenderRestartable ==
    /\ [][(pc \in {"lexed", "render", "rendered"})
          => /\ tokens' = tokens
             /\ variables' = variables]_vars
    /\ []((pc = "rendered" /\ prevOut.set) => out = prevOut.val)

\* C17 witness: a second call of render has returned, on tokens that hold a
\* variable token.
C17_Witness ==
    /\ pc = "rendered"
    /\ prevOut.set
    /\ out = prevOut.val
    /\ out # <<>>
    /\ \E k \in 1..Len(tokens) : tokens[k].type = "VARIABLE"

\* C18: the index of the Text Cursor -- on a non-empty string of length L,
\* after any sequence of calls, 0 <= idx < L; and idx never decreases.
C18_IndexInvariant ==
    /\ [](text # <<>> => (0 <= idx /\ idx < Len(text)))
    /\ [][idx' >= idx]_vars

\* C18 witness: next was called at the last index of a string of three or
\* more characters and the index stayed there.
C18_Witness ==
    /\ Len(text) >= 3
    /\ idx = Len(text) - 1
    /\ call.op = "next"
    /\ call.ret = "None"

\* C19: advance -- next increments idx by exactly one and returns the
\* character at the new idx if and only if idx + 1 < L, and otherwise leaves
\* idx unchanged and returns no character; current, peek and is_last never
\* change idx.
C19_Advance ==
    [][/\ call'.op = "next" =>
             IF idx + 1 < Len(text)
             THEN idx' = idx + 1 /\ call'.ret = text[idx + 2]
             ELSE idx' = idx /\ call'.ret = "None"
       /\ call'.op \in {"current", "peek", "is_last"} => idx' = idx]_vars

\* C19 witness: next has advanced onto a character that differs from the
\* one before it and has returned it.
C19_Witness ==
    /\ call.op = "next"
    /\ idx >= 1
    /\ call.ret = text[idx + 1]
    /\ text[idx] # text[idx + 1]

\* C20: boundaries -- is_last returns true if and only if idx = L - 1; on the
\* empty string is_last is never true and current, peek and next return no
\* character; no call raises.
C20_Boundaries ==
    /\ call.op = "is_last" => (call.flag <=> idx = Len(text) - 1)
    /\ text = <<>> =>
          /\ call.op = "is_last" => ~call.flag
          /\ call.op \in {"current", "peek", "next"} => call.ret = "None"
    /\ call.ret # "IndexError"

\* C20 witness: is_last was called on the empty string and returned false.
C20_Witness ==
    /\ text = <<>>
    /\ call.op = "is_last"
    /\ ~call.flag

\* p is the beginning of s.
IsPrefix(p, s) == Len(p) <= Len(s) /\ SubSeq(s, 1, Len(p)) = p

\* C21: literal coalescing -- in the token sequence of lex no NORMAL token
\* has an empty text and no two NORMAL tokens are adjacent; a token is
\* emitted only when a candidate has succeeded (the pending literal text, if
\* any, as one NORMAL token right before the VARIABLE token) or when the
\* input has ended (the pending literal text as the last token); and the span
\* of a failed candidate joins the pending literal text and emits no token.
C21_Coalescing ==
    /\ [](\A k \in 1..Len(tokens) :
             tokens[k].type = "NORMAL" =>
                 /\ tokens[k].text # <<>>
                 /\ k > 1 => tokens[k - 1].type # "NORMAL")
    /\ [][tokens' # tokens =>
             \/ /\ pc = "ret"
                /\ token.type = "VARIABLE"
                /\ tokens' = tokens
                              \o (IF buf = <<>> THEN <<>> ELSE <<Literal(buf)>>)
                              \o <<token>>
             \/ /\ pc = "flush"
                /\ pc' = "lexed"
                /\ buf # <<>>
                /\ tokens' = Append(tokens, Literal(buf))]_vars
    /\ [][(pc = "ret" /\ token.type = "NORMAL") =>
             /\ tokens' = tokens
             /\ IsPrefix(buf \o token.text, buf')]_vars

\* C21 witness: lex has returned a NORMAL token that holds the span of a
\* failed candidate and the text after it, then a VARIABLE token.
C21_Witness ==
    /\ pc = "lexed"
    /\ Len(tokens) >= 2
    /\ tokens[1].type = "NORMAL"
    /\ HasMarkerStart(tokens[1].text)
    /\ tokens[1].text[Len(tokens[1].text)] = "a"
    /\ tokens[2].type = "VARIABLE"

EndsAfterPlainText(t) == Len(t) >= 1 /\ ~HasMarkerStart(t)

\* t is a well-formed marker followed by one character.
EndsAfterMarker(t) ==
    Len(t) >= 5 /\ IsSingleMarker(SubSeq(t, 1, Len(t) - 1), IsLooseBody)

\* t is a candidate that fails on a `}` not followed by `}`, followed by one
\* character.
EndsAfterFailedCandidate(t) ==
    /\ Len(t) >= 4
    /\ t[1] = "{" /\ t[2] = "{"
    /\ IsLooseBody(SubSeq(t, 3, Len(t) - 2))
    /\ t[Len(t) - 1] = "}"
    /\ t[Len(t)] # "}"

\* C24: end-of-input handling -- when the last character of the input
\* follows plain text (inputs of length 1 included), a successful marker or
\* a failed candidate, and so was not consumed by a candidate, lex ends with
\* that character in the literal text exactly once: the last token is a
\* NORMAL token that ends with it and the texts of the tokens concatenate to
\* the input, the last character neither missing nor repeated.
C24_EndOfInput ==
    (/\ pc = "lexed"
     /\ \/ EndsAfterPlainText(text)
        \/ EndsAfterMarker(text)
        \/ EndsAfterFailedCandidate(text)) =>
        /\ tokens # <<>>
        /\ tokens[Len(tokens)].type = "NORMAL"
        /\ EndsWith(tokens[Len(tokens)].text, <<text[Len(text)]>>)
        /\ ConcatTexts(tokens) = text

\* C25: resumption after a failed candidate -- when lex takes up a failed
\* candidate, the characters it adds to the literal buffer are exactly the
\* characters of the input from the first opening brace to the last one the
\* candidate recorded, and the reader is left on the input position right
\* after the last of these characters (or the input has ended there): no
\* position is skipped and none of the span is scanned again.
C25_Resumption ==
    [][(pc = "ret" /\ token.type = "NORMAL") =>
          LET after == pstart + Len(token.text)
          IN  /\ token.text = SubSeq(text, pstart + 1, after)
              /\ IsPrefix(buf \o token.text, buf')
              /\ IF after < Len(text) THEN idx' = after ELSE pc' = "flush"]_vars

\* The pass of the candidate loop: control is in the loop and the peeked
\* character is not `}`.
InCandidatePass ==
    pc = "parse" /\ ~(idx + 2 <= Len(text) /\ text[idx + 2] = "}")

\* C26 as stated: lex returns; every pass of the main loop that does not
\* leave it strictly increases the index; the main loop runs at most L
\* passes on an input of length L; and every pass of the candidate loop
\* advances the index.
C26_AsStated ==
    /\ <>(pc = "lexed")
    /\ [][(pc = "lex" /\ pc' = "lex") => idx' > idx]_vars
    /\ [][(pc = "ret" /\ pc' = "lex") => idx' > pstart]_vars
    /\ [](iters <= Len(text))
    /\ [][InCandidatePass => idx' > idx]_vars

\* C26, corrected: lex returns; every pass of the main loop that does not
\* leave it strictly increases the index, so the main loop runs at most L
\* passes on an input of length L >= 1, and one pass on the empty input;
\* every pass of the candidate loop that stays in the loop advances the
\* index by one, and the pass that does not advance it (the input has ended)
\* returns a NORMAL token.
C26_Terminates ==
    /\ <>(pc = "lexed")
    /\ [][(pc = "lex" /\ pc' = "lex") => idx' > idx]_vars
    /\ [][(pc = "ret" /\ pc' = "lex") => idx' > pstart]_vars
    /\ [](iters <= IF text = <<>> THEN 1 ELSE Len(text))
    /\ [][InCandidatePass =>
             IF pc' = "parse" THEN idx' = idx + 1
             ELSE /\ pc' = "ret"
                  /\ token'.type = "NORMAL"
                  /\ idx' = idx => idx + 1 = Len(text)]_vars

\* C26 witness: lex has returned after three or more passes of its main
\* loop, the last of them on a candidate that ran into the end of the input.
C26_Witness ==
    /\ pc = "lexed"
    /\ iters >= 3
    /\ token.type = "NORMAL"
    /\ IsUnfinishedSpan(token.text)
    /\ EndsWith(text, token.text)

\* The first position of t from j on that holds neither a letter, a dot, an
\* underscore nor a space; Len(t) + 1 when there is none.
CandidateStop(t, j) ==
    LET stops == {k \in j..Len(t) : t[k] \notin IdentChars \cup {" "}}
    IN  IF stops = {} THEN Len(t) + 1
        ELSE CHOOSE k \in stops : \A m \in stops : k <= m

\* The condition of C27 on the input t read from position i (from 1): every
\* candidate runs into the end of the input or stops on a `}`, and after the
\* last `}` a candidate consumed there is not exactly one character left.
RECURSIVE LosslessCondition(_, _)
LosslessCondition(t, i) ==
    IF i > Len(t) THEN TRUE
    ELSE IF ~(i < Len(t) /\ t[i] = "{" /\ t[i + 1] = "{")
    THEN LosslessCondition(t, i + 1)
    ELSE LET j == CandidateStop(t, i + 2)
             last == IF j < Len(t) /\ t[j + 1] = "}" THEN j + 1 ELSE j
         IN  IF j > Len(t) THEN TRUE
             ELSE IF t[j] # "}" THEN FALSE
             ELSE IF Len(t) - last = 1 THEN FALSE
             ELSE LosslessCondition(t, last + 1)

\* C27: conditional losslessness -- for an input of two or more characters
\* in which no candidate is ended by a character other than a letter, a dot,
\* an underscore, a space or `}`, and no candidate, successful or failed by a
\* `}` not followed by `}`, has exactly one character of input left after
\* its last `}`, the texts of the tokens of lex concatenate to the input.
C27_ConditionalLossless ==
    (pc = "lexed" /\ Len(text) >= 2 /\ LosslessCondition(text, 1)) =>
        ConcatTexts(tokens) = text

\* C27 witness: lex has returned, on an input that meets the condition, the
\* span of a failed candidate in a NORMAL token, a VARIABLE token and a
\* NORMAL token of two or more characters.
C27_Witness ==
    /\ pc = "lexed"
    /\ LosslessCondition(text, 1)
    /\ Len(tokens) = 3
    /\ HasMarkerStart(tokens[1].text)
    /\ tokens[2].type = "VARIABLE"
    /\ Len(tokens[3].text) >= 2
    /\ ConcatTexts(tokens) = text

\* sub is a contiguous part of s.
IsSubstring(sub, s) ==
    \E i \in 1..(Len(s) - Len(sub) + 1) :
        SubSeq(s, i, i + Len(sub) - 1) = sub

IsEmptyMarker(t) ==
    /\ Len(t) >= 4
    /\ t[1] = "{" /\ t[2] = "{" /\ t[Len(t) - 1] = "}" /\ t[Len(t)] = "}"
    /\ \A k \in 3..(Len(t) - 2) : t[k] = " "

\* C29: the empty identifier -- `{{}}`, or `{{` + spaces + `}}`, lexes to one
\* VARIABLE token whose name is the empty string; and the step of render on
\* a VARIABLE token of empty name appends the value of the empty-string key
\* when the mapping holds it, else the sentinel with an empty name.
C29_EmptyIdentifier ==
    /\ []((pc = "lexed" /\ IsEmptyMarker(text)) =>
             tokens = <<VariableRef(text, <<>>)>>)
    /\ [][(/\ pc = "render"
           /\ ri <= Len(tokens)
           /\ tokens[ri].type = "VARIABLE"
           /\ tokens[ri].variable = <<>>)
          => out' = out \o (IF <<>> \in DOMAIN variables
                            THEN Str(variables[<<>>])
                            ELSE Sentinel(<<>>))]_vars

\* C29 witness: render has returned the sentinel with an empty name for a
\* marker that holds only spaces.
C29_Witness ==
    /\ pc = "rendered"
    /\ IsEmptyMarker(text)
    /\ Len(text) > 4
    /\ <<>> \notin DOMAIN variables
    /\ out = Sentinel(<<>>)

\* C30: substitution is single-pass -- the step of render on a VARIABLE
\* token whose name is a key appends the string of the value as it is and
\* leaves the tokens alone; and when render returns it has handled every
\* token once, its result being, token by token, the text of a NORMAL token
\* and one substitution per VARIABLE token, so that a value that holds a
\* well-formed marker stands unexpanded in the result.
C30_SinglePass ==
    /\ [][(/\ pc = "render"
           /\ ri <= Len(tokens)
           /\ tokens[ri].type = "VARIABLE"
           /\ tokens[ri].variable \in DOMAIN variables)
          => /\ out' = out \o Str(variables[tokens[ri].variable])
             /\ tokens' = tokens
             /\ ri' = ri + 1]_vars
    /\ [](pc = "rendered" =>
             /\ ri = Len(tokens) + 1
             /\ out = RenderedWithFallback(tokens, variables, EmptyMapping))

\* C30 witness: render has returned, after some literal text, the value of a
\* variable, which is the marker of a variable that the mapping holds.
C30_Witness ==
    /\ pc = "rendered"
    /\ Len(tokens) >= 2
    /\ tokens[1].type = "NORMAL"
    /\ tokens[2] = VariableRef(<<"{", "{", "a", "}", "}">>, <<"a">>)
    /\ <<"_">> \in DOMAIN variables
    /\ out = tokens[1].text \o <<"{", "{", "_", "}", "}">>

====
